---- MODULE Spec2Model ----
(***************************************************************************)
(* The three optimisation scripts of the repository (offshore cable        *)
(* layout, transportation, workforce scheduling).  Each script builds a    *)
(* Gurobi model, calls model.optimize() and reads the solution back.  The  *)
(* state of a run is the data, the candidate assignment the solver is      *)
(* looking at, the solver status and the position in the script.           *)
(***************************************************************************)
EXTENDS Integers, FiniteSets, Sequences, TLC

VARIABLES
    \* offshore/offshore.py
    df, distances, install, flow, off_status, off_pc,
    \* workforce/workforce_scheduling.py
    shiftRequirements, availability, y, x, n, maxWork, minWork,
    wf_status, wf_pc,
    \* transportation/simple.py
    xflow, tr_status, tr_pc

off_vars == <<df, distances, install, flow, off_status, off_pc>>
wf_vars == <<shiftRequirements, availability, y, x, n, maxWork, minWork,
             wf_status, wf_pc>>
tr_vars == <<xflow, tr_status, tr_pc>>
vars == <<off_vars, wf_vars, tr_vars>>

----------------------------------------------------------------------------
(* gurobipy helpers: tupledict.sum(pattern), tupledict.prod(coeffs)        *)

RECURSIVE SumOver(_, _)
SumOver(td, keys) ==
    IF keys = {} THEN 0
    ELSE LET k == CHOOSE k \in keys : TRUE
         IN  td[k] + SumOver(td, keys \ {k})

\* tuplelist.select(pattern): '*' matches any value in that field
Select(keys, pat) ==
    {k \in keys : \A p \in 1..Len(pat) : pat[p] = "*" \/ pat[p] = k[p]}

\* tupledict.sum(pattern)
TupleSum(td, pat) == SumOver(td, Select(DOMAIN td, pat))

\* tupledict.prod(coeffs)
TupleProd(td, coeffs) ==
    SumOver([k \in DOMAIN td |-> coeffs[k] * td[k]], DOMAIN td)

RECURSIVE SqrtSearch(_, _, _)
SqrtSearch(q, lo, hi) ==
    IF lo >= hi THEN lo
    ELSE LET mid == (lo + hi + 1) \div 2
         IN  IF mid * mid <= q THEN SqrtSearch(q, mid, hi)
             ELSE SqrtSearch(q, lo, mid - 1)

\* np.sqrt on the squared distances of the layouts below (all are squares)
Sqrt(q) == SqrtSearch(q, 0, 20000)

----------------------------------------------------------------------------
(* offshore/offshore.py                                                    *)

price_per_km == 1000000
capacity == 65
produced == 8

\* rows of offshore.xlsx: the platform and the turbines
Turbines == {"T1", "T2"}
names == {"Plat"} \cup Turbines

\* places of the sheet, in metres (Easting, Northing)
Sites == { <<3000, 4000>>, <<6000, 8000>>, <<0, 8000>>, <<6000, 0>> }
PlatSite == <<0, 0>>

Layouts ==
    { l \in [names -> Sites \cup {PlatSite}] :
        /\ l["Plat"] = PlatSite
        /\ \A a \in Turbines : l[a] \in Sites
        /\ \A a, b \in Turbines : a # b => l[a] # l[b] }

connections == { <<o, d>> \in names \X names : o # d /\ o # "Plat" }

\* distance of a connection in km
Distance(data, c) ==
    LET dE == data[c[1]][1] - data[c[2]][1]
        dN == data[c[1]][2] - data[c[2]][2]
    IN  Sqrt(dE * dE + dN * dN) \div 1000

\* values a flow variable takes in the candidates the solver looks at
MaxFlowMult == 2
FlowVals == { k * produced : k \in -1..MaxFlowMult } \cup {capacity, capacity + 1}

\* 'All connected': x.sum(i,'*') == 1
AllConnected(xx, i) == TupleSum(xx, <<i, "*">>) = 1

\* 'Flow' with the two sums exchanged
FlowConstr_Exchanged(ff, i) ==
    TupleSum(ff, <<"*", i>>) = TupleSum(ff, <<i, "*">>) + produced

\* 'Flow' without the production term
FlowConstr_NoProduction(ff, i) ==
    TupleSum(ff, <<i, "*">>) = TupleSum(ff, <<"*", i>>)

\* 'Flow': f.sum(i,'*') == f.sum('*',i) + produced
FlowConstr(ff, i) == TupleSum(ff, <<i, "*">>) = TupleSum(ff, <<"*", i>>) + produced

\* the capacity bound without the install variable
SemiContinuous_NoInstall(xx, ff, c) == ff[c] <= capacity

\* 'Semi-continuous variable': f[c] <= capacity*x[c]
SemiContinuous(xx, ff, c) == ff[c] <= capacity * xx[c]

\* 'test': x[c] == 0 for connections of 10 km or more
TestConstr(xx, dist, c) == dist[c] >= 10 => xx[c] = 0

\* addVars defaults: install binary, flow continuous with lower bound 0
OffVarBounds(xx, ff) ==
    \A c \in connections : xx[c] \in {0, 1} /\ ff[c] >= 0

\* every constraint the script adds to the model
OffFeasible(xx, ff, dist) ==
    /\ OffVarBounds(xx, ff)
    /\ \A i \in names : AllConnected(xx, i)
    /\ \A i \in names \ {"Plat"} : FlowConstr(ff, i)
    /\ \A c \in connections : SemiContinuous(xx, ff, c)
    /\ \A c \in connections : TestConstr(xx, dist, c)

\* model.setObjective(x.prod(distances))
OffObjective(xx, dist) == TupleProd(xx, dist)

OffHasFeasible(dist) ==
    \E xx \in [connections -> {0, 1}] :
        /\ \A i \in names : AllConnected(xx, i)
        /\ \A c \in connections : TestConstr(xx, dist, c)
        /\ \E ff \in [connections -> FlowVals] : OffFeasible(xx, ff, dist)

OffIsOptimal(xx, ff, dist) ==
    /\ OffFeasible(xx, ff, dist)
    /\ \A x2 \in [connections -> {0, 1}] :
         OffObjective(x2, dist) < OffObjective(xx, dist) =>
            ~ \E f2 \in [connections -> FlowVals] : OffFeasible(x2, f2, dist)

OffOther ==
    /\ shiftRequirements = <<>> /\ availability = {} /\ y = <<>> /\ x = <<>>
    /\ n = <<>> /\ maxWork = 0 /\ minWork = 0
    /\ wf_status = "LOADED" /\ wf_pc = "off"
    /\ xflow = <<>> /\ tr_status = "LOADED" /\ tr_pc = "off"

\* the script up to model.optimize(): data read, model built
OffInit ==
    /\ df \in Layouts
    /\ distances = [c \in connections |-> Distance(df, c)]
    /\ install = [c \in connections |-> 0]
    /\ flow = [c \in connections |-> 0]
    /\ off_status = "LOADED"
    /\ off_pc = "optimize"
    /\ OffOther

\* the solver moves to another candidate value of an install variable
SetInstall(c, v) ==
    /\ off_pc = "optimize"
    /\ install[c] # v
    /\ install' = [install EXCEPT ![c] = v]
    /\ UNCHANGED <<df, distances, flow, off_status, off_pc, wf_vars, tr_vars>>

\* the solver moves to another candidate value of a flow variable
SetFlow(c, v) ==
    /\ off_pc = "optimize"
    /\ flow[c] # v
    /\ flow' = [flow EXCEPT ![c] = v]
    /\ UNCHANGED <<df, distances, install, off_status, off_pc, wf_vars, tr_vars>>

\* model.optimize() returns: with an optimal candidate, or with the proof
\* that no candidate satisfies the constraints
OffOptimize ==
    /\ off_pc = "optimize"
    /\ IF OffFeasible(install, flow, distances)
       THEN OffIsOptimal(install, flow, distances)
       ELSE ~ OffHasFeasible(distances)
    /\ off_status' = IF OffFeasible(install, flow, distances)
                     THEN "OPTIMAL" ELSE "INFEASIBLE"
    /\ off_pc' = "solved"
    /\ UNCHANGED <<df, distances, install, flow, wf_vars, tr_vars>>

\* G.add_edges_from([... if x[i,j].x > 0.5]): reading .x raises when the
\* solver has no solution
OffDrawEdges ==
    /\ off_pc = "solved"
    /\ off_pc' = IF off_status = "OPTIMAL" THEN "drawn" ELSE "fault"
    /\ UNCHANGED <<df, distances, install, flow, off_status, wf_vars, tr_vars>>

OffNext ==
    \/ \E c \in connections, v \in {0, 1} : SetInstall(c, v)
    \/ \E c \in connections, v \in FlowVals : SetFlow(c, v)
    \/ OffOptimize
    \/ OffDrawEdges

SpecOffshore == OffInit /\ [][OffNext]_vars

----------------------------------------------------------------------------
(* offshore: properties                                                    *)

\* flow on the cables that end in node i / that start in node i
FlowInto(ff, i) == SumOver(ff, {c \in connections : c[2] = i})
FlowOutOf(ff, i) == SumOver(ff, {c \in connections : c[1] = i})

FlowHolds == \A i \in names \ {"Plat"} : FlowConstr(flow, i)

\* C2 as stated: under the 'Flow' constraints, for every node other than
\* 'Plat' the flow into the node equals the flow out of it plus the local
\* production of 8 MW.
C2_InflowIsOutflowPlusProduced ==
    FlowHolds =>
        \A i \in names \ {"Plat"} :
            FlowInto(flow, i) = FlowOutOf(flow, i) + produced

\* C2 amended: under the 'Flow' constraints, for every node other than
\* 'Plat' the flow out of the node equals the flow into it plus the local
\* production of 8 MW.
C2_OutflowIsInflowPlusProduced ==
    FlowHolds =>
        \A i \in names \ {"Plat"} :
            FlowOutOf(flow, i) = FlowInto(flow, i) + produced

\* a candidate that satisfies 'Flow' and relays power through a turbine
C2_Witness ==
    FlowHolds /\ \E i \in names \ {"Plat"} : FlowInto(flow, i) > 0

\* total cost of the installed cables: km times price per km
InstalledCost ==
    SumOver([c \in connections |-> distances[c] * price_per_km],
            {c \in connections : install[c] = 1})

\* C3: for every assignment of the install variables the objective value
\* equals the total cost of the installed cables, distance in km times
\* price_per_km.
C3_ObjectiveIsInstalledCost ==
    OffObjective(install, distances) = InstalledCost

\* the cable that leaves turbine t, when exactly one is installed
CableTarget(t) == CHOOSE d \in names : <<t, d>> \in connections /\ install[<<t, d>>] = 1

RECURSIVE ReachesPlat(_, _)
ReachesPlat(t, steps) ==
    IF t = "Plat" THEN TRUE
    ELSE IF steps = 0 THEN FALSE
    ELSE ReachesPlat(CableTarget(t), steps - 1)

TurbineConstraintsHold ==
    /\ \A i \in names \ {"Plat"} : AllConnected(install, i)
    /\ FlowHolds
    /\ \A c \in connections : SemiContinuous(install, flow, c)
    /\ \A c \in connections : flow[c] >= 0

\* C5: when 'All connected', 'Flow' and the capacity linkage hold for all
\* turbines and flows are non-negative, following the installed cables from
\* any turbine reaches 'Plat' (no cycle among turbines).
C5_EveryTurbineReachesPlat ==
    TurbineConstraintsHold =>
        \A t \in names \ {"Plat"} : ReachesPlat(t, Cardinality(names))

\* the turbine constraints hold with one turbine cabled through the other
C5_Witness ==
    /\ TurbineConstraintsHold
    /\ \E t, u \in names \ {"Plat"} : t # u /\ install[<<t, u>>] = 1

\* C10: under the 'Semi-continuous variable' constraints and the default
\* variable bounds, a connection carries nonzero flow only if it is
\* installed, and an installed connection carries at most 65 MW.
C10_FlowOnlyOnInstalledCable ==
    ( /\ \A c \in connections : SemiContinuous(install, flow, c)
      /\ OffVarBounds(install, flow) ) =>
        \A c \in connections :
            /\ flow[c] # 0 => install[c] = 1
            /\ install[c] = 1 => flow[c] <= 65

\* the linkage holds with a cable loaded to its capacity
C10_Witness ==
    /\ \A c \in connections : SemiContinuous(install, flow, c)
    /\ OffVarBounds(install, flow)
    /\ \E c \in connections : install[c] = 1 /\ flow[c] = 65

AllWithinReach == \A c \in connections : distances[c] < 10

\* C4: with 'Plat' and one to eight turbines, all distances below 10 km,
\* the model as built has a feasible solution: the solver returns an
\* optimal plan.
C4_CloseLayoutIsFeasible ==
    ( /\ off_pc = "solved"
      /\ AllWithinReach
      /\ Cardinality(names \ {"Plat"}) \in 1..8 ) => off_status = "OPTIMAL"

\* C6: when the solve ends infeasible or unbounded the run surfaces the
\* status and does not end in a fault from reading solution values.
C6_StatusSurfacedWithoutFault ==
    off_status \in {"INFEASIBLE", "UNBOUNDED"} => off_pc # "fault"

----------------------------------------------------------------------------
(* workforce/workforce_scheduling.py                                       *)

workers == {"Amy", "Bob"}
shifts == {"Mon1", "Tue2"}

\* availability lists of the instances considered
Availabilities ==
    { { <<"Amy", "Mon1">> },
      { <<"Amy", "Mon1">>, <<"Amy", "Tue2">> },
      { <<"Amy", "Mon1">>, <<"Bob", "Mon1">>, <<"Amy", "Tue2">> },
      { <<"Amy", "Mon1">>, <<"Bob", "Mon1">>, <<"Amy", "Tue2">>, <<"Bob", "Tue2">> } }

\* largest headcount a shift requires in the instances considered
MaxReq == 2

\* values the solver's candidates take
HireVals == -1..MaxReq
LoadVals == 0..Cardinality(shifts)

Max(S) == CHOOSE m \in S : \A e \in S : e <= m
Min(S) == CHOOSE m \in S : \A e \in S : m <= e

\* 'JustGoToWork' as a lower bound on the headcount
JustGoToWork_AtLeast(yy, nn, req, s) == TupleSum(yy, <<"*", s>>) + nn[s] >= req[s]

\* 'JustGoToWork': y.sum('*',s) + n[s] == shiftRequirements[s]
JustGoToWork(yy, nn, req, s) == TupleSum(yy, <<"*", s>>) + nn[s] = req[s]

\* 'Workers': y.sum(w,'*') == x[w]
WorkersConstr(yy, xx, w) == TupleSum(yy, <<w, "*">>) = xx[w]

\* 'maxconstr': maxWork == gp.max_(x)
MaxConstr(mx, xx) == mx = Max({xx[w] : w \in DOMAIN xx})

\* 'minconstr' taking the maximum
MinConstr_TakesMax(mn, xx) == mn = Max({xx[w] : w \in DOMAIN xx})

\* 'minconstr': minWork == gp.min_(x)
MinConstr(mn, xx) == mn = Min({xx[w] : w \in DOMAIN xx})

\* addVars / addVar defaults: y binary, the others continuous from 0
WfVarBounds(a) ==
    /\ \A k \in DOMAIN a.y : a.y[k] \in {0, 1}
    /\ \A w \in workers : a.x[w] >= 0
    /\ \A s \in shifts : a.n[s] >= 0
    /\ a.maxWork >= 0
    /\ a.minWork >= 0

\* every constraint the script adds to the model
WfFeasible(a, req) ==
    /\ WfVarBounds(a)
    /\ \A s \in shifts : JustGoToWork(a.y, a.n, req, s)
    /\ \A w \in workers : WorkersConstr(a.y, a.x, w)
    /\ MaxConstr(a.maxWork, a.x)
    /\ MinConstr(a.minWork, a.x)

\* setObjectiveN(expr, index): priority and weight keep their defaults
ObjectiveN ==
    [ index \in {0, 1} |-> [priority |-> 0, weight |-> 1] ]

\* value of objective `index`: n.sum(), and maxWork - minWork
ObjNValue(a, index) ==
    IF index = 0 THEN SumOver(a.n, DOMAIN a.n) ELSE a.maxWork - a.minWork

\* objectives of one priority are blended by their weights
Blend(a, prio) ==
    LET obj == [ i \in DOMAIN ObjectiveN |->
                   IF ObjectiveN[i].priority = prio
                   THEN ObjectiveN[i].weight * ObjNValue(a, i) ELSE 0 ]
    IN  SumOver(obj, DOMAIN ObjectiveN)

\* priorities are optimised from the highest down, each within the optima
\* of the ones before
RECURSIVE Hierarchical(_, _)
Hierarchical(S, prios) ==
    IF prios = {} \/ S = {} THEN S
    ELSE LET p == Max(prios)
             best == {a \in S : \A b \in S : Blend(a, p) <= Blend(b, p)}
         IN  Hierarchical(best, prios \ {p})

WfCandidates(avail) ==
    [ y : [avail -> {0, 1}], x : [workers -> LoadVals],
      n : [shifts -> HireVals], maxWork : LoadVals, minWork : LoadVals ]

WfFeasibleSet(avail, req) == {a \in WfCandidates(avail) : WfFeasible(a, req)}

WfOptimalSet(avail, req) ==
    Hierarchical(WfFeasibleSet(avail, req),
                 {ObjectiveN[i].priority : i \in DOMAIN ObjectiveN})

WfCurrent == [y |-> y, x |-> x, n |-> n, maxWork |-> maxWork, minWork |-> minWork]

WfOther ==
    /\ df = <<>> /\ distances = <<>> /\ install = <<>> /\ flow = <<>>
    /\ off_status = "LOADED" /\ off_pc = "off"
    /\ xflow = <<>> /\ tr_status = "LOADED" /\ tr_pc = "off"

\* the script up to model.optimize()
WfInit ==
    /\ availability \in Availabilities
    /\ shiftRequirements \in [shifts -> 1..MaxReq]
    /\ y = [k \in availability |-> 0]
    /\ x = [w \in workers |-> 0]
    /\ n = [s \in shifts |-> 0]
    /\ maxWork = 0
    /\ minWork = 0
    /\ wf_status = "LOADED"
    /\ wf_pc = "optimize"
    /\ WfOther

\* the solver moves to another candidate value of one variable
SetY(k, v) ==
    /\ wf_pc = "optimize" /\ k \in availability /\ y[k] # v
    /\ y' = [y EXCEPT ![k] = v]
    /\ UNCHANGED <<shiftRequirements, availability, x, n, maxWork, minWork,
                   wf_status, wf_pc, off_vars, tr_vars>>

SetX(w, v) ==
    /\ wf_pc = "optimize" /\ x[w] # v
    /\ x' = [x EXCEPT ![w] = v]
    /\ UNCHANGED <<shiftRequirements, availability, y, n, maxWork, minWork,
                   wf_status, wf_pc, off_vars, tr_vars>>

SetN(s, v) ==
    /\ wf_pc = "optimize" /\ n[s] # v
    /\ n' = [n EXCEPT ![s] = v]
    /\ UNCHANGED <<shiftRequirements, availability, y, x, maxWork, minWork,
                   wf_status, wf_pc, off_vars, tr_vars>>

SetMaxWork(v) ==
    /\ wf_pc = "optimize" /\ maxWork # v
    /\ maxWork' = v
    /\ UNCHANGED <<shiftRequirements, availability, y, x, n, minWork,
                   wf_status, wf_pc, off_vars, tr_vars>>

SetMinWork(v) ==
    /\ wf_pc = "optimize" /\ minWork # v
    /\ minWork' = v
    /\ UNCHANGED <<shiftRequirements, availability, y, x, n, maxWork,
                   wf_status, wf_pc, off_vars, tr_vars>>

\* model.optimize() returns with a candidate that is optimal for the
\* objectives as registered
WfOptimize ==
    /\ wf_pc = "optimize"
    /\ WfFeasible(WfCurrent, shiftRequirements)
    /\ WfCurrent \in WfOptimalSet(availability, shiftRequirements)
    /\ wf_status' = "OPTIMAL"
    /\ wf_pc' = "solved"
    /\ UNCHANGED <<shiftRequirements, availability, y, x, n, maxWork, minWork,
                   off_vars, tr_vars>>

\* for v in y: if y[v].x > 0.5: print(v)
WfPrint ==
    /\ wf_pc = "solved"
    /\ wf_pc' = IF wf_status = "OPTIMAL" THEN "printed" ELSE "fault"
    /\ UNCHANGED <<shiftRequirements, availability, y, x, n, maxWork, minWork,
                   wf_status, off_vars, tr_vars>>

WfNext ==
    \/ \E k \in workers \X shifts, v \in {0, 1} : SetY(k, v)
    \/ \E w \in workers, v \in LoadVals : SetX(w, v)
    \/ \E s \in shifts, v \in HireVals : SetN(s, v)
    \/ \E v \in LoadVals : SetMaxWork(v)
    \/ \E v \in LoadVals : SetMinWork(v)
    \/ WfOptimize
    \/ WfPrint

SpecWorkforce == WfInit /\ [][WfNext]_vars

----------------------------------------------------------------------------
(* workforce: properties                                                   *)

TempHires(a) == SumOver(a.n, shifts)

\* shifts worker w is assigned to / workers assigned to shift s
ShiftsOf(a, w) == {s \in shifts : <<w, s>> \in DOMAIN a.y /\ a.y[<<w, s>>] = 1}
WorkersOn(a, s) == {w \in workers : <<w, s>> \in DOMAIN a.y /\ a.y[<<w, s>>] = 1}

Imbalance(a) ==
    Max({Cardinality(ShiftsOf(a, w)) : w \in workers})
      - Min({Cardinality(ShiftsOf(a, w)) : w \in workers})

\* C1: every solution optimal for the model as built has the minimum
\* number of temporary hires of any feasible schedule and, among the
\* schedules with that minimum, the minimum max-minus-min workload.
C1_SolvedLexicographically ==
    wf_pc = "solved" =>
        LET feas == WfFeasibleSet(availability, shiftRequirements)
            fewest == {a \in feas : \A b \in feas : TempHires(a) <= TempHires(b)}
        IN  /\ WfCurrent \in fewest
            /\ \A b \in fewest : Imbalance(WfCurrent) <= Imbalance(b)

\* C8: in every feasible solution, for every shift the assigned workers
\* plus the temporary hires equal the required headcount, no shift has more
\* assigned workers than it requires, and workers are assigned only to
\* shifts of their availability.
C8_ShiftCoverage ==
    WfFeasible(WfCurrent, shiftRequirements) =>
        \A s \in shifts :
            /\ Cardinality(WorkersOn(WfCurrent, s)) + n[s] = shiftRequirements[s]
            /\ Cardinality(WorkersOn(WfCurrent, s)) <= shiftRequirements[s]
            /\ \A w \in WorkersOn(WfCurrent, s) : <<w, s>> \in availability

\* a feasible candidate with a shift covered partly by a temporary hire
C8_Witness ==
    /\ WfFeasible(WfCurrent, shiftRequirements)
    /\ \E s \in shifts : WorkersOn(WfCurrent, s) # {} /\ n[s] > 0

\* C9: in every feasible solution x[w] is the number of shifts assigned to
\* worker w, and maxWork - minWork is the largest minus the smallest number
\* of shifts assigned to any worker (0 for a worker without assignment).
C9_WorkloadAndFairness ==
    WfFeasible(WfCurrent, shiftRequirements) =>
        /\ \A w \in workers : x[w] = Cardinality(ShiftsOf(WfCurrent, w))
        /\ maxWork - minWork = Imbalance(WfCurrent)

\* a feasible candidate with unequal workloads, one worker without a shift
C9_Witness ==
    /\ WfFeasible(WfCurrent, shiftRequirements)
    /\ maxWork = 2 /\ minWork = 0
    /\ \E w \in workers : \A s \in shifts : <<w, s>> \notin availability

----------------------------------------------------------------------------
(* transportation/simple.py                                                *)

DC == {"seattle", "san-diego"}
FC == {"new-york", "chicago", "topeka"}
Capacity == [i \in DC |-> IF i = "seattle" THEN 350 ELSE 600]
Demand ==
    [j \in FC |-> IF j = "new-york" THEN 325 ELSE IF j = "chicago" THEN 300 ELSE 275]

\* Distances in tenths of the unit of the script (2.5 is 25)
Distances ==
    [k \in DC \X FC |->
        IF k = <<"seattle", "new-york">> THEN 25
        ELSE IF k = <<"seattle", "chicago">> THEN 17
        ELSE IF k = <<"seattle", "topeka">> THEN 18
        ELSE IF k = <<"san-diego", "new-york">> THEN 25
        ELSE IF k = <<"san-diego", "chicago">> THEN 18
        ELSE 14]
Price == 90

\* values a flow variable takes in the candidates the solver looks at: a
\* demand, what a demand leaves of a capacity, nothing, or a negative amount
TrFlowVals ==
    {0 - 25, 0} \cup {Demand[j] : j \in FC}
      \cup {Capacity["seattle"] - Demand[j] : j \in FC}

\* 'Capacity': x.sum(i,'*') <= Capacity[i]
CapacityConstr(xx, i) == TupleSum(xx, <<i, "*">>) <= Capacity[i]

\* 'Demand' as an upper bound
DemandConstr_AtMost(xx, j) == TupleSum(xx, <<"*", j>>) <= Demand[j]

\* 'Demand': x.sum('*',j) >= Demand[j]
DemandConstr(xx, j) == TupleSum(xx, <<"*", j>>) >= Demand[j]

\* addVars default: continuous with lower bound 0
TrVarBounds(xx) == \A k \in DC \X FC : xx[k] >= 0

TrFeasible(xx) ==
    /\ TrVarBounds(xx)
    /\ \A i \in DC : CapacityConstr(xx, i)
    /\ \A j \in FC : DemandConstr(xx, j)

\* model.setObjective(Price*x.prod(Distances)), in tenths
TrObjective(xx) == Price * TupleProd(xx, Distances)

TrFeasibleSet == {xx \in [DC \X FC -> TrFlowVals] : TrFeasible(xx)}

TrBest == Min({TrObjective(xx) : xx \in TrFeasibleSet})

TrOther ==
    /\ df = <<>> /\ distances = <<>> /\ install = <<>> /\ flow = <<>>
    /\ off_status = "LOADED" /\ off_pc = "off"
    /\ shiftRequirements = <<>> /\ availability = {} /\ y = <<>> /\ x = <<>>
    /\ n = <<>> /\ maxWork = 0 /\ minWork = 0
    /\ wf_status = "LOADED" /\ wf_pc = "off"

\* the script up to model.optimize()
TrInit ==
    /\ xflow = [k \in DC \X FC |-> 0]
    /\ tr_status = "LOADED"
    /\ tr_pc = "optimize"
    /\ TrOther

\* the solver moves to another candidate value of a flow variable
TrSetFlow(k, v) ==
    /\ tr_pc = "optimize"
    /\ xflow[k] # v
    /\ xflow' = [xflow EXCEPT ![k] = v]
    /\ UNCHANGED <<tr_status, tr_pc, off_vars, wf_vars>>

\* model.optimize() returns: with an optimal candidate, or with the proof
\* that no candidate satisfies the constraints
TrOptimize ==
    /\ tr_pc = "optimize"
    /\ IF TrFeasible(xflow)
       THEN TrObjective(xflow) = TrBest
       ELSE TrFeasibleSet = {}
    /\ tr_status' = IF TrFeasible(xflow) THEN "OPTIMAL" ELSE "INFEASIBLE"
    /\ tr_pc' = "solved"
    /\ UNCHANGED <<xflow, off_vars, wf_vars>>

\* for v in x: print(f'{v}: {x[v].x}'); model.ObjVal
TrPrint ==
    /\ tr_pc = "solved"
    /\ tr_pc' = IF tr_status = "OPTIMAL" THEN "printed" ELSE "fault"
    /\ UNCHANGED <<xflow, tr_status, off_vars, wf_vars>>

TrNext ==
    \/ \E k \in DC \X FC, v \in TrFlowVals : TrSetFlow(k, v)
    \/ TrOptimize
    \/ TrPrint

SpecTransport == TrInit /\ [][TrNext]_vars

----------------------------------------------------------------------------
(* transportation: properties                                              *)

Shipped(xx, i) == SumOver(xx, {k \in DC \X FC : k[1] = i})
Received(xx, j) == SumOver(xx, {k \in DC \X FC : k[2] = j})

\* a non-negative flow within the capacities that meets the demands
MeetsDemandWithinCapacity(xx) ==
    /\ \A k \in DC \X FC : xx[k] >= 0
    /\ Shipped(xx, "seattle") <= 350 /\ Shipped(xx, "san-diego") <= 600
    /\ Received(xx, "new-york") >= 325 /\ Received(xx, "chicago") >= 300
    /\ Received(xx, "topeka") >= 275

\* 90 * sum of distance * flow over the six pairs, in tenths
ShippingCost(xx) ==
    90 * ( 25 * xx[<<"seattle", "new-york">>] + 17 * xx[<<"seattle", "chicago">>]
         + 18 * xx[<<"seattle", "topeka">>] + 25 * xx[<<"san-diego", "new-york">>]
         + 18 * xx[<<"san-diego", "chicago">>] + 14 * xx[<<"san-diego", "topeka">>] )

\* C7: on the concrete instance a non-negative flow within the capacities
\* that meets the demands exists, and the solve ends optimal with such a
\* flow whose cost no other such flow undercuts.
C7_ConcreteInstanceOptimal ==
    /\ tr_pc # "optimize" =>
          /\ tr_status = "OPTIMAL"
          /\ MeetsDemandWithinCapacity(xflow)
          /\ TrObjective(xflow) = ShippingCost(xflow)
    /\ MeetsDemandWithinCapacity(xflow) => ShippingCost(xflow) >= ShippingCost(
          [k \in DC \X FC |->
             IF k = <<"seattle", "chicago">> THEN 300
             ELSE IF k = <<"seattle", "new-york">> THEN 50
             ELSE IF k = <<"san-diego", "new-york">> THEN 275
             ELSE IF k = <<"san-diego", "topeka">> THEN 275 ELSE 0])

\* the solve has returned the flow of cost 153675 (1536750 tenths)
C7_Witness ==
    /\ tr_pc = "solved" /\ tr_status = "OPTIMAL"
    /\ MeetsDemandWithinCapacity(xflow)
    /\ ShippingCost(xflow) = 1536750

====
